---- MODULE Spec2Model ----
(***************************************************************************)
(* State-machine model of github.com/ISSuh/skiplist (skiplist.go).         *)
(*                                                                         *)
(* The heap is a sequence of SkipListNode records addressed by index; a    *)
(* pointer is an index, the nil pointer is Nil.  Level numbers are the     *)
(* 0-based levels of the source; slice element L is element L+1 of the     *)
(* TLA+ sequence.  A section of code that runs with list.mutex held is one *)
(* step; code that runs without the mutex is a step of its own.  Nodes no  *)
(* pointer leads to are dropped from the heap, as the garbage collector    *)
(* does.                                                                   *)
(***************************************************************************)
EXTENDS Integers, Sequences, FiniteSets, TLC

\* ------------------------------------------------------------------ bounds

\* largest maxLevel handed to New
MaxLevel == 2
\* number of entry nodes the heap holds at a time
MaxNodes == 3

\* how far length and size may run away from the entries the list holds
MaxDrift == 1

\* calls a thread makes when calls overlap
MaxCalls == 2

Threads == {1, 2}
\* keys (strings as byte sequences) and values ([]byte) the callers use
Keys == {<<>>, <<1>>, <<1, 2>>}
Values == {<<7>>, <<8, 9>>}

\* ------------------------------------------------------------------ pointers

Nil == 0
HeadNode == 1
TailNode == 2
\* outcomes of a pointer computation that does not return
PanicRef == 0 - 1
HangRef == 0 - 2

\* ------------------------------------------------------------------ strings

RECURSIVE KeyNotGreater(_, _)
\* a <= b in place of a < b
KeyNotGreater(a, b) ==
    IF Len(a) = 0 THEN TRUE
    ELSE IF Len(b) = 0 THEN FALSE
    ELSE IF Head(a) # Head(b) THEN Head(a) < Head(b)
    ELSE KeyNotGreater(Tail(a), Tail(b))

RECURSIVE KeyLess(_, _)
\* Go's a < b on strings: bytewise lexicographic order
KeyLess(a, b) ==
    IF Len(b) = 0 THEN FALSE
    ELSE IF Len(a) = 0 THEN TRUE
    ELSE IF Head(a) # Head(b) THEN Head(a) < Head(b)
    ELSE KeyLess(Tail(a), Tail(b))

\* ------------------------------------------------------------------ uint64

LimbBase == 65536
LimbCount == 4

U64Zero == [i \in 1..LimbCount |-> 0]

RECURSIVE U64AddAt(_, _, _)
\* add carry c into limb i and upwards; a carry out of the top limb is lost
U64AddAt(a, i, c) ==
    IF i > LimbCount \/ c = 0 THEN a
    ELSE LET s == a[i] + c
         IN  U64AddAt([a EXCEPT ![i] = s % LimbBase], i + 1, s \div LimbBase)

\* a + n modulo 2^64, for 0 <= n < LimbBase
U64Add(a, n) == U64AddAt(a, 1, n)

RECURSIVE U64SubAt(_, _, _)
\* subtract borrow b from limb i and upwards; a borrow out of the top limb is lost
U64SubAt(a, i, b) ==
    IF i > LimbCount \/ b = 0 THEN a
    ELSE IF a[i] >= b THEN [a EXCEPT ![i] = a[i] - b]
    ELSE U64SubAt([a EXCEPT ![i] = a[i] + LimbBase - b], i + 1, 1)

\* a - n modulo 2^64, for 0 <= n < LimbBase
U64Sub(a, n) == U64SubAt(a, 1, n)

\* the value n as a uint64, for an integer n of small magnitude
U64(n) == IF n >= 0 THEN U64Add(U64Zero, n) ELSE U64Sub(U64Zero, 0 - n)

\* ------------------------------------------------------------------ state

VARIABLES
    maxLevel,   \* SkipList.maxLevel
    heap,       \* the SkipListNode objects; heap[HeadNode] and heap[TailNode] are list.head and list.tail
    length,     \* SkipList.length
    size,       \* SkipList.size (uint64)
    history,    \* SkipList.history, the shared search buffer
    mutex,      \* SkipList.mutex: Nil or the thread holding it
    pc,         \* per thread: where it is in its call
    call,       \* per thread: the call it is in and its arguments
    node,       \* per thread: the local variable node of Set / Remove, or the item kept from a Get
    shadow,     \* the key -> value map the completed calls describe
    calls       \* per thread: the calls it has started, where they are counted

vars == <<maxLevel, heap, length, size, history, mutex, pc, call, node, shadow, calls>>

NoCall == [op |-> "none", key |-> <<>>, value |-> <<>>]

\* ------------------------------------------------------------------ nodes

NewNode(levels, key, value, isEnd) ==
    [levels |-> levels,
     prevNode |-> [i \in 1..levels |-> Nil],
     nextNode |-> [i \in 1..levels |-> Nil],
     item |-> [key |-> key, value |-> value],
     isEndNode |-> isEnd]

\* SkipListNode.next(targetLevel)
NodeNext(h, n, targetLevel) ==
    IF h[n].levels < targetLevel THEN Nil
    ELSE IF targetLevel + 1 > Len(h[n].nextNode) THEN PanicRef
    ELSE h[n].nextNode[targetLevel + 1]

\* match that takes every node for the key sought
NodeMatchAny(h, n, key) == TRUE

\* SkipListNode.match(key)
NodeMatch(h, n, key) == key = h[n].item.key

\* appendOnLevel that leaves the successor's back pointer as it was
AppendOnLevelForwardOnly(h, n, newNode, targetLevel) ==
    LET i  == targetLevel + 1
        h2 == [h EXCEPT ![newNode].prevNode[i] = n]
        h3 == [h2 EXCEPT ![newNode].nextNode[i] = h2[n].nextNode[i]]
    IN  [h3 EXCEPT ![n].nextNode[i] = newNode]

\* SkipListNode.appendOnLevel(newNode, targetLevel)
AppendOnLevel(h, n, newNode, targetLevel) ==
    LET i  == targetLevel + 1
        nx == h[n].nextNode[i]
        h1 == IF nx # Nil THEN [h EXCEPT ![nx].prevNode[i] = newNode] ELSE h
        h2 == [h1 EXCEPT ![newNode].prevNode[i] = n]
        h3 == [h2 EXCEPT ![newNode].nextNode[i] = h2[n].nextNode[i]]
    IN  [h3 EXCEPT ![n].nextNode[i] = newNode]

\* removeOnLevel that leaves the predecessor's forward pointer as it was
RemoveOnLevelBackOnly(h, n, targetLevel) ==
    LET i  == targetLevel + 1
        nx == h[n].nextNode[i]
    IN  IF nx # Nil THEN [h EXCEPT ![nx].prevNode[i] = h[n].prevNode[i]] ELSE h

\* removeOnLevel that leaves the successor's back pointer as it was
RemoveOnLevelForwardOnly(h, n, targetLevel) ==
    LET i  == targetLevel + 1
        pv == h[n].prevNode[i]
    IN  IF pv # Nil THEN [h EXCEPT ![pv].nextNode[i] = h[n].nextNode[i]] ELSE h

\* SkipListNode.removeOnLevel(targetLevel)
RemoveOnLevel(h, n, targetLevel) ==
    LET i  == targetLevel + 1
        nx == h[n].nextNode[i]
        h1 == IF nx # Nil THEN [h EXCEPT ![nx].prevNode[i] = h[n].prevNode[i]] ELSE h
        pv == h1[n].prevNode[i]
    IN  IF pv # Nil THEN [h1 EXCEPT ![pv].nextNode[i] = h1[n].nextNode[i]] ELSE h1

\* SkipListNode.Next()
NodeNextPublic(h, n) ==
    IF h[n].nextNode[1] # Nil /\ h[h[n].nextNode[1]].isEndNode THEN Nil
    ELSE h[n].nextNode[1]

\* SkipListNode.Prev()
NodePrevPublic(h, n) ==
    IF h[n].prevNode[1] # Nil /\ h[h[n].prevNode[1]].isEndNode THEN Nil
    ELSE h[n].prevNode[1]

\* ------------------------------------------------------------------ New

RECURSIVE LinkEnds(_, _, _)
\* the loop of New: head.appendOnLevel(tail, i) for i = from .. m-1
LinkEnds(h, from, m) ==
    IF from >= m THEN h
    ELSE LinkEnds(AppendOnLevel(h, HeadNode, TailNode, from), from + 1, m)

\* the heap New(m) builds
NewHeap(m) ==
    LinkEnds(<<NewNode(m, <<>>, <<>>, TRUE), NewNode(m, <<>>, <<>>, TRUE)>>, 0, m)

Init ==
    /\ maxLevel \in 1..MaxLevel
    /\ heap = NewHeap(maxLevel)
    /\ length = 0
    /\ size = U64Zero
    /\ history = [i \in 1..maxLevel |-> Nil]
    /\ mutex = Nil
    /\ pc = [t \in Threads |-> "idle"]
    /\ call = [t \in Threads |-> NoCall]
    /\ node = [t \in Threads |-> Nil]
    /\ shadow = <<>>
    /\ calls = [t \in Threads |-> 0]

\* ------------------------------------------------------------------ accessors

\* SkipList.Length()
Length == length
\* SkipList.Size()
Size == size
\* SkipList.Front()
Front == heap[HeadNode].nextNode[1]
\* SkipList.Back()
Back == heap[TailNode].prevNode[1]

\* ------------------------------------------------------------------ search

RECURSIVE Advance(_, _, _, _, _)
\* the inner loop of findInternal at level i, started at current; fuel bounds
\* the walk by the number of nodes, past which it has entered a cycle
Advance(h, current, i, key, fuel) ==
    LET nx == NodeNext(h, current, i)
    IN  IF nx = PanicRef THEN PanicRef
        ELSE IF nx = TailNode THEN current
        ELSE IF nx = Nil THEN PanicRef
        ELSE IF KeyLess(h[nx].item.key, key)
             THEN IF fuel = 0 THEN HangRef ELSE Advance(h, nx, i, key, fuel - 1)
        ELSE current

RECURSIVE DescendRecordsStart(_, _, _, _, _)
\* findInternal that records where each level's walk started
DescendRecordsStart(h, current, i, key, hist) ==
    IF i < 0 THEN [current |-> current, history |-> hist]
    ELSE LET c == Advance(h, current, i, key, Len(h))
         IN  IF c < 0 THEN [current |-> c, history |-> hist]
             ELSE DescendRecordsStart(h, c, i - 1, key, [hist EXCEPT ![i + 1] = current])

RECURSIVE Descend(_, _, _, _, _)
\* the outer loop of findInternal from level i down to 0
Descend(h, current, i, key, hist) ==
    IF i < 0 THEN [current |-> current, history |-> hist]
    ELSE LET c == Advance(h, current, i, key, Len(h))
         IN  IF c < 0 THEN [current |-> c, history |-> hist]
             ELSE Descend(h, c, i - 1, key, [hist EXCEPT ![i + 1] = c])

\* findInternal that takes a sentinel for an entry when its key matches
FindInternalNoEndCheck(h, m, key, hist) ==
    LET d == Descend(h, HeadNode, m - 1, key, hist)
        c == IF d.current < 0 THEN d.current ELSE NodeNext(h, d.current, 0)
        r == IF c < 0 THEN c
             ELSE IF c = Nil THEN PanicRef
             ELSE IF ~NodeMatch(h, c, key) THEN Nil
             ELSE c
    IN  [node |-> r, history |-> d.history]

\* SkipList.findInternal(key, history): the node returned (Nil for none,
\* PanicRef, HangRef) and the history buffer as the search leaves it
FindInternal(h, m, key, hist) ==
    LET d == Descend(h, HeadNode, m - 1, key, hist)
        c == IF d.current < 0 THEN d.current ELSE NodeNext(h, d.current, 0)
        r == IF c < 0 THEN c
             ELSE IF c = Nil THEN PanicRef
             ELSE IF h[c].isEndNode \/ ~NodeMatch(h, c, key) THEN Nil
             ELSE c
    IN  [node |-> r, history |-> d.history]

\* ------------------------------------------------------------------ insert, delete

RECURSIVE RandomLevelFrom(_, _)
\* SkipList.randomLevel(): the levels the loop can stop at, starting from level
RandomLevelFrom(level, m) ==
    IF level < m THEN {level} \cup RandomLevelFrom(level + 1, m) ELSE {level}

RandomLevel(m) == RandomLevelFrom(1, m)

RECURSIVE SpliceLevels(_, _, _, _, _)
\* the loop of insertNode: history[i-1].appendOnLevel(node, i-1) for i = from .. randomLevel
SpliceLevels(h, hist, newNode, from, randomLevel) ==
    IF from > randomLevel THEN h
    ELSE SpliceLevels(AppendOnLevel(h, hist[from], newNode, from - 1),
                      hist, newNode, from + 1, randomLevel)

\* deleteNode that leaves its loop after the first level
UnlinkLevelZeroOnly(h, n, from) ==
    IF from >= h[n].levels THEN h ELSE RemoveOnLevel(h, n, from)

RECURSIVE UnlinkLevels(_, _, _)
\* the loop of deleteNode: node.removeOnLevel(i) for i = from .. nodeLevel-1
UnlinkLevels(h, n, from) ==
    IF from >= h[n].levels THEN h
    ELSE UnlinkLevels(RemoveOnLevel(h, n, from), n, from + 1)

\* ------------------------------------------------------------------ the reference map

ShadowPut(s, k, v) == [x \in (DOMAIN s) \cup {k} |-> IF x = k THEN v ELSE s[x]]
ShadowDel(s, k) == [x \in (DOMAIN s) \ {k} |-> s[x]]

\* ------------------------------------------------------------------ memory
\* Go's garbage collector: a node no pointer leads to any more (from the list,
\* from the history buffer, from a caller's local variable) is dropped, and the
\* remaining nodes keep their order of allocation.

Refs(h, n) ==
    {h[n].nextNode[i] : i \in 1..h[n].levels} \cup {h[n].prevNode[i] : i \in 1..h[n].levels}

RECURSIVE Reachable(_, _)
Reachable(h, S) ==
    LET T == (S \cup UNION {Refs(h, n) : n \in S}) \ {Nil}
    IN  IF T = S THEN S ELSE Reachable(h, T)

Moved(R, n) == IF n = Nil THEN Nil ELSE Cardinality({m \in R : m <= n})

\* the nodes of R alone, numbered in their order of allocation
Renumber(h, hist, nd, R) ==
    LET old(j) == CHOOSE n \in R : Moved(R, n) = j
    IN  IF Cardinality(R) = Len(h) THEN [heap |-> h, history |-> hist, node |-> nd]
        ELSE [heap |-> [j \in 1..Cardinality(R) |->
                          LET o == h[old(j)]
                          IN  [o EXCEPT !.nextNode = [i \in 1..o.levels |-> Moved(R, o.nextNode[i])],
                                        !.prevNode = [i \in 1..o.levels |-> Moved(R, o.prevNode[i])]]],
              history |-> [i \in DOMAIN hist |-> Moved(R, hist[i])],
              node |-> [t \in Threads |-> Moved(R, nd[t])]]

Collect(h, hist, nd) ==
    LET roots == ({HeadNode, TailNode} \cup {hist[i] : i \in DOMAIN hist}
                    \cup {nd[t] : t \in Threads}) \ {Nil}
    IN  CHOOSE c \in {Renumber(h, hist, nd, R) : R \in {Reachable(h, roots)}} : TRUE

\* the step leaves heap h, history buffer hist and local variables nd
Leaves(h, hist, nd) ==
    \E c \in {Collect(hh, hs, ns) : hh \in {h}, hs \in {hist}, ns \in {nd}} :
        heap' = c.heap /\ history' = c.history /\ node' = c.node

\* ------------------------------------------------------------------ caps on the counters

RECURSIVE Payload(_)
\* the bytes of the keys and values of a map
Payload(s) ==
    IF DOMAIN s = {} THEN 0
    ELSE LET k == CHOOSE x \in DOMAIN s : TRUE
         IN  Len(k) + Len(s[k]) + Payload([x \in (DOMAIN s) \ {k} |-> s[x]])

\* no call has been counted against MaxCalls: the caps are what bounds the run
Uncounted == \A t \in Threads : calls[t] = 0

\* room for one more node
NodeCap(h) == Uncounted => Len(h) < MaxNodes + 2

\* length and size stay within MaxDrift of the reference map s
LengthCap(n, s) ==
    Uncounted => n \in (Cardinality(DOMAIN s) - MaxDrift)..(Cardinality(DOMAIN s) + MaxDrift)
SizeCap(u, s) ==
    Uncounted => u \in {U64(n) : n \in (Payload(s) - MaxDrift)..(Payload(s) + MaxDrift)}

\* ------------------------------------------------------------------ steps
\* A section that runs with list.mutex held (Lock ... deferred Unlock) is one
\* step, enabled when the mutex is free.  A search that never ends keeps the
\* mutex; a panic releases it (deferred Unlock) and ends the program.

Crashed == \E t \in Threads : pc[t] = "panic"

\* Set that inserts whether or not the search found the key
AfterFindAlwaysInsert(op, r) ==
    IF r = PanicRef THEN "panic"
    ELSE IF r = HangRef THEN "hang"
    ELSE IF op = "Get" THEN "idle"
    ELSE IF op = "Set" THEN "insertNode"
    ELSE (IF r # Nil THEN "deleteNode" ELSE "idle")

\* where a call goes after findInternal returned r
AfterFind(op, r) ==
    IF r = PanicRef THEN "panic"
    ELSE IF r = HangRef THEN "hang"
    ELSE IF op = "Get" THEN "idle"
    ELSE IF op = "Set" THEN (IF r # Nil THEN "setValue" ELSE "insertNode")
    ELSE (IF r # Nil THEN "deleteNode" ELSE "idle")

\* a call c starts: findInternal(key, list.history) runs under the mutex and
\* returns into the caller
Enter(t, c) ==
    /\ ~Crashed
    /\ pc[t] = "idle"
    /\ mutex = Nil
    /\ \E f \in {FindInternal(heap, maxLevel, c.key, history)} :
       LET to == AfterFind(c.op, f.node)
       IN  /\ Leaves(heap, f.history,
                     [node EXCEPT ![t] = IF to \in {"setValue", "deleteNode"} THEN f.node ELSE Nil])
           /\ mutex' = IF f.node = HangRef THEN t ELSE Nil
           /\ pc' = [pc EXCEPT ![t] = to]
           /\ call' = [call EXCEPT ![t] = IF to = "idle" THEN NoCall ELSE c]
    /\ UNCHANGED <<maxLevel, length, size, shadow>>

\* SkipList.Set(key, value) up to the return of findInternal
Set(t, k, v) == Enter(t, [op |-> "Set", key |-> k, value |-> v])

\* SkipList.Get(key)
Get(t, k) == Enter(t, [op |-> "Get", key |-> k, value |-> <<>>])

\* SkipList.Remove(key) up to the return of findInternal
Remove(t, k) == Enter(t, [op |-> "Remove", key |-> k, value |-> <<>>])

\* Set: node.item.value = value, without the mutex
SetValue(t) ==
    /\ ~Crashed
    /\ pc[t] = "setValue"
    /\ Leaves([heap EXCEPT ![node[t]].item.value = call[t].value], history,
              [node EXCEPT ![t] = Nil])
    /\ shadow' = ShadowPut(shadow, call[t].key, call[t].value)
    /\ pc' = [pc EXCEPT ![t] = "idle"]
    /\ call' = [call EXCEPT ![t] = NoCall]
    /\ UNCHANGED <<maxLevel, length, size, mutex>>

\* the heap after insertNode(key, value, hist) drew randomLevel
InsertedHeap(h, hist, key, value, randomLevel) ==
    SpliceLevels(Append(h, NewNode(randomLevel, key, value, FALSE)),
                 hist, Len(h) + 1, 1, randomLevel)

\* insertNode calls randomLevel before it takes the mutex, and randomLevel
\* calls rand.Int31 of the list's one *rand.Rand when 1 < maxLevel: two
\* insertNodes under way at once race on the generator's indices, and besides
\* any level the race can end in an index out of range, a panic
RandRace(t) == maxLevel > 1 /\ \E u \in Threads \ {t} : pc[u] = "insertNode"

\* insertNode that counts length once per level spliced
InsertNodeCountsLevels(t) ==
    /\ ~Crashed
    /\ pc[t] = "insertNode"
    /\ mutex = Nil
    /\ NodeCap(heap)
    /\ \E randomLevel \in RandomLevel(maxLevel) :
           /\ Leaves(InsertedHeap(heap, history, call[t].key, call[t].value, randomLevel),
                     history, node)
           /\ length' = length + randomLevel
    /\ size' = U64Add(U64Add(size, Len(call[t].key)), Len(call[t].value))
    /\ shadow' = ShadowPut(shadow, call[t].key, call[t].value)
    /\ pc' = [pc EXCEPT ![t] = "idle"]
    /\ call' = [call EXCEPT ![t] = NoCall]
    /\ UNCHANGED <<maxLevel, mutex>>

\* Set: insertNode(key, value, list.history)
InsertNode(t) ==
    /\ ~Crashed
    /\ pc[t] = "insertNode"
    /\ \/ /\ mutex = Nil
          /\ NodeCap(heap)
          /\ \E randomLevel \in RandomLevel(maxLevel) :
                 Leaves(InsertedHeap(heap, history, call[t].key, call[t].value, randomLevel),
                        history, node)
          /\ length' = length + 1
          /\ size' = U64Add(U64Add(size, Len(call[t].key)), Len(call[t].value))
          /\ shadow' = ShadowPut(shadow, call[t].key, call[t].value)
          /\ LengthCap(length', shadow') /\ SizeCap(size', shadow')
          /\ pc' = [pc EXCEPT ![t] = "idle"]
          /\ call' = [call EXCEPT ![t] = NoCall]
          /\ UNCHANGED <<maxLevel, mutex>>
       \/ /\ RandRace(t)
          /\ pc' = [pc EXCEPT ![t] = "panic"]
          /\ UNCHANGED <<maxLevel, heap, length, size, history, mutex, call, node, shadow>>

\* Remove: deleteNode(node)
DeleteNode(t) ==
    /\ ~Crashed
    /\ pc[t] = "deleteNode"
    /\ mutex = Nil
    /\ size' = U64Sub(U64Sub(size, Len(heap[node[t]].item.key)), Len(heap[node[t]].item.value))
    /\ Leaves(UnlinkLevels(heap, node[t], 0), history, [node EXCEPT ![t] = Nil])
    /\ length' = length - 1
    /\ shadow' = ShadowDel(shadow, call[t].key)
    /\ LengthCap(length', shadow') /\ SizeCap(size', shadow')
    /\ pc' = [pc EXCEPT ![t] = "idle"]
    /\ call' = [call EXCEPT ![t] = NoCall]
    /\ UNCHANGED <<maxLevel, mutex>>

\* a call of thread t is counted against MaxCalls
Counted(t) == calls[t] < MaxCalls /\ calls' = [calls EXCEPT ![t] = @ + 1]

\* calls from independent threads, interleaved; a thread makes MaxCalls calls
Next ==
    \E t \in Threads :
        \/ Counted(t) /\ \E k \in Keys, v \in Values : Set(t, k, v)
        \/ Counted(t) /\ \E k \in Keys : Get(t, k)
        \/ Counted(t) /\ \E k \in Keys : Remove(t, k)
        \/ SetValue(t) /\ UNCHANGED calls
        \/ InsertNode(t) /\ UNCHANGED calls
        \/ DeleteNode(t) /\ UNCHANGED calls

Spec == Init /\ [][Next]_vars

\* non-overlapping calls, any number of them: one caller, whose next call
\* starts when the one before has returned (as in TestSetAndGet .. TestIteratePrev)
SeqNext ==
    \/ \E k \in Keys, v \in Values : Set(1, k, v) /\ UNCHANGED calls
    \/ \E k \in Keys : Get(1, k) /\ UNCHANGED calls
    \/ \E k \in Keys : Remove(1, k) /\ UNCHANGED calls
    \/ SetValue(1) /\ UNCHANGED calls
    \/ InsertNode(1) /\ UNCHANGED calls
    \/ DeleteNode(1) /\ UNCHANGED calls

SeqSpec == Init /\ [][SeqNext]_vars

\* one thread sets every key once while another reads the same keys:
\* thread 1 calls Set on keys not set before, thread 2 calls Get once per key
SetGetNext ==
    \/ \E k \in Keys \ DOMAIN shadow, v \in Values : Set(1, k, v) /\ UNCHANGED calls
    \/ InsertNode(1) /\ UNCHANGED calls
    \/ /\ calls[2] < Cardinality(Keys)
       /\ \E k \in Keys : Get(2, k)
       /\ calls' = [calls EXCEPT ![2] = @ + 1]

SetGetSpec == Init /\ [][SetGetNext]_vars

\* ------------------------------------------------------------------ observations

AllIdle == \A t \in Threads : pc[t] = "idle"

\* what Get(k) returns in this state: Nil or the node whose item it points to
GetResult(k) == FindInternal(heap, maxLevel, k, history).node

RECURSIVE WalkNext(_, _, _)
\* the nodes a caller visits from n by Next() until it reports none
WalkNext(h, n, fuel) ==
    IF n = Nil \/ fuel = 0 THEN <<>>
    ELSE <<n>> \o WalkNext(h, NodeNextPublic(h, n), fuel - 1)

RECURSIVE WalkPrev(_, _, _)
\* the nodes a caller visits from n by Prev() until it reports none
WalkPrev(h, n, fuel) ==
    IF n = Nil \/ fuel = 0 THEN <<>>
    ELSE <<n>> \o WalkPrev(h, NodePrevPublic(h, n), fuel - 1)

\* Front() then Next() repeatedly; Back() then Prev() repeatedly
FrontWalk == WalkNext(heap, Front, Len(heap) + 1)
BackWalk == WalkPrev(heap, Back, Len(heap) + 1)

KeysOf(w) == [i \in DOMAIN w |-> heap[w[i]].item.key]
Increasing(ks) == \A i \in 1..(Len(ks) - 1) : KeyLess(ks[i], ks[i + 1])
Decreasing(ks) == \A i \in 1..(Len(ks) - 1) : KeyLess(ks[i + 1], ks[i])

\* the walk w visits every entry of the reference map exactly once
VisitsEntries(w) ==
    /\ Len(w) = Cardinality(DOMAIN shadow)
    /\ \A k \in DOMAIN shadow :
           \E i \in DOMAIN w : heap[w[i]].item = [key |-> k, value |-> shadow[k]]
    /\ \A i \in DOMAIN w : ~heap[w[i]].isEndNode

\* every level-L pointer of a node leads to a node that has level L
PointersInRange ==
    \A n \in DOMAIN heap : \A i \in 1..heap[n].levels :
        /\ Len(heap[n].nextNode) = heap[n].levels
        /\ Len(heap[n].prevNode) = heap[n].levels
        /\ \A m \in {heap[n].nextNode[i], heap[n].prevNode[i]} :
               m # Nil => m \in DOMAIN heap /\ heap[m].levels >= i

\* ------------------------------------------------------------------ claims

\* C1: after non-overlapping calls, Get(k) returns the entry with the value of
\* the most recent Set(k, v) for every key set (and not removed since), reports
\* not-found for every other key, and Length() is the number of distinct keys.
C1_GetReturnsLastSet ==
    AllIdle =>
        /\ \A k \in Keys :
               IF k \in DOMAIN shadow
               THEN /\ GetResult(k) \in DOMAIN heap
                    /\ heap[GetResult(k)].item = [key |-> k, value |-> shadow[k]]
               ELSE GetResult(k) = Nil
        /\ Length = Cardinality(DOMAIN shadow)

\* C1 witness: two keys are set, one of them holds the longer value, a third was never set or is gone
C1_Witness ==
    /\ AllIdle
    /\ Cardinality(DOMAIN shadow) = 2
    /\ \E k \in DOMAIN shadow : Len(shadow[k]) = 2 /\ GetResult(k) # Nil
    /\ \E k \in Keys \ DOMAIN shadow : GetResult(k) = Nil

\* C2: after non-overlapping Set and Remove calls that leave an entry, Front
\* then Next visits every entry once in strictly increasing key order, and
\* Back then Prev visits every entry once in strictly decreasing key order.
C2_WalksVisitEntriesInOrder ==
    (AllIdle /\ DOMAIN shadow # {}) =>
        /\ VisitsEntries(FrontWalk) /\ Increasing(KeysOf(FrontWalk))
        /\ VisitsEntries(BackWalk) /\ Decreasing(KeysOf(BackWalk))

\* C2 witness: three entries, walked forwards and backwards
C2_Witness ==
    /\ AllIdle
    /\ Len(FrontWalk) = 3 /\ Len(BackWalk) = 3
    /\ Cardinality(DOMAIN shadow) = 3

\* C3: Size() is the sum of len(key)+len(value) over the present entries
\* after every sequence of non-overlapping Set and Remove calls, a Set that
\* replaces a value by one of another length included.
C3_SizeIsPayload == AllIdle => Size = U64(Payload(shadow))

\* C4: search and splice/unlink of one call are one critical section: once a
\* call has searched and is about to splice or unlink, the next step taken is
\* its own splice or unlink, and no other step writes the history buffer first.
C4_SearchAndSpliceAreOneSection ==
    [][\A t \in Threads :
           pc[t] \in {"insertNode", "deleteNode"} => (pc'[t] # pc[t] /\ history' = history)]_vars

RECURSIVE ChainFrom(_, _, _, _)
ChainFrom(h, n, L, fuel) ==
    IF n = Nil \/ n = TailNode \/ fuel = 0 THEN <<>>
    ELSE <<n>> \o ChainFrom(h, h[n].nextNode[L + 1], L, fuel - 1)

\* the nodes the level-L forward pointers lead through from head, up to tail
Chain(L) == ChainFrom(heap, heap[HeadNode].nextNode[L + 1], L, Len(heap))

\* the setter has set every key and the getter has made its calls
SetGetDone ==
    /\ AllIdle
    /\ DOMAIN shadow = Keys
    /\ calls[2] = Cardinality(Keys)

\* C5: one thread sets N distinct keys while another calls Get; after both
\* finish the level-0 chain holds exactly the N keys in strictly increasing
\* order and Get(k) finds each key with the value set.
C5_SetGetLeavesSortedList ==
    SetGetDone =>
        /\ Len(Chain(0)) = Cardinality(Keys)
        /\ Increasing(KeysOf(Chain(0)))
        /\ \A k \in Keys :
               /\ GetResult(k) \in DOMAIN heap
               /\ heap[GetResult(k)].item = [key |-> k, value |-> shadow[k]]

\* C6: one thread sets N distinct keys while another calls Get on the same
\* keys; after both finish Length() is N.
C6_SetGetLength == SetGetDone => Length = Cardinality(Keys)

\* C6 witness: both threads are done and the interleaving left the level-0
\* chain out of key order
C6_Witness == SetGetDone /\ ~Increasing(KeysOf(Chain(0)))

\* C7: under any interleaving of Set calls the level-0 chain holds at most one
\* node per key, and once the calls are over Length() counts each key once.
C7_KeysUnique ==
    /\ \A i, j \in DOMAIN Chain(0) :
           i # j => heap[Chain(0)[i]].item.key # heap[Chain(0)[j]].item.key
    /\ AllIdle => Length = Cardinality(DOMAIN shadow)

\* what Get(k) returns with heap h and history buffer hist
GetIn(h, hist, k) == FindInternal(h, maxLevel, k, hist).node

\* C8: after Remove(k) on a present key Get(k) reports not-found, and Remove(k)
\* on an absent key changes neither Length(), Size(), an entry nor a pointer.
C8_RemoveThenAbsent ==
    [][\A t \in Threads :
           /\ (pc[t] = "deleteNode" /\ pc'[t] = "idle") =>
                  GetIn(heap', history', call[t].key) = Nil
           /\ \A k \in Keys :
                  (pc[t] = "idle" /\ GetResult(k) = Nil /\ Remove(t, k)) =>
                      (pc'[t] = "idle" /\ UNCHANGED <<heap, length, size>>)]_vars

\* C8 witness: Remove has found its key on a list of three entries and unlinks it next
C8_Witness ==
    \E t \in Threads : pc[t] = "deleteNode" /\ Length = 3 /\ call[t].key \in DOMAIN shadow

\* C9: Front() and Back() return none or a node that holds an entry, and none
\* on a list without entries.
C9_FrontBackNeverSentinel ==
    /\ Front = Nil \/ ~heap[Front].isEndNode
    /\ Back = Nil \/ ~heap[Back].isEndNode
    /\ Len(Chain(0)) = 0 => (Front = Nil /\ Back = Nil)

\* C10: Set(k, v) on a present key only replaces the value of k's node: no
\* node is created or destroyed, Length() and every pointer and height are
\* unchanged, and there is still exactly one node for k, at the same place.
C10_UpdateInPlace ==
    [][\A t \in Threads :
           (/\ pc[t] \in {"setValue", "insertNode"}
            /\ call[t].key \in DOMAIN shadow
            /\ pc'[t] = "idle") =>
               /\ length' = length
               /\ Len(heap') = Len(heap)
               /\ \E n \in DOMAIN heap :
                      /\ heap[n].item.key = call[t].key
                      /\ heap' = [heap EXCEPT ![n].item.value = call[t].value]
               /\ KeysOf(FrontWalk)' = KeysOf(FrontWalk)]_vars

\* C10 witness: Set has found its key holding another value and replaces it next
C10_Witness ==
    \E t \in Threads :
        /\ pc[t] = "setValue"
        /\ heap[node[t]].item.value # call[t].value
        /\ Length = 3

\* ------------------------------------------------------------------ New with any maxLevel

\* New(m) panics in make([]*SkipListNode, m) when m is negative
NewPanics(m) == m < 0

\* the state New(maxLevel) leaves for a maxLevel of either sign: a panic of the
\* constructing thread and no list, or the list handed back
NewInit ==
    /\ maxLevel \in (0 - MaxLevel)..MaxLevel
    /\ heap = IF NewPanics(maxLevel) THEN <<>> ELSE NewHeap(maxLevel)
    /\ length = 0
    /\ size = U64Zero
    /\ history = IF NewPanics(maxLevel) THEN <<>> ELSE [i \in 1..maxLevel |-> Nil]
    /\ mutex = Nil
    /\ pc = [t \in Threads |-> IF NewPanics(maxLevel) /\ t = 1 THEN "panic" ELSE "idle"]
    /\ call = [t \in Threads |-> NoCall]
    /\ node = [t \in Threads |-> Nil]
    /\ shadow = <<>>
    /\ calls = [t \in Threads |-> 0]

\* New(maxLevel), then non-overlapping calls on the list it handed back
NewSpec == NewInit /\ [][SeqNext]_vars

\* C11: New with a maxLevel of zero or less ends in a panic and hands back no
\* list on which Set, Get or Remove could be called.
C11_NonPositiveMaxLevelFailsFast == maxLevel <= 0 => Crashed

\* ------------------------------------------------------------------ the level invariant

\* the nodes of the level-0 chain: the entries present
Present == {Chain(0)[i] : i \in DOMAIN Chain(0)}

\* the level-L chain from head arrives at tail
EndsAtTail(L) ==
    LET c == Chain(L)
        last == IF c = <<>> THEN HeadNode ELSE c[Len(c)]
    IN  heap[last].nextNode[L + 1] = TailNode

\* C12: between non-overlapping calls, at every level L below maxLevel the
\* forward chain from head ends at tail, has strictly increasing keys and
\* holds exactly the present entries of height above L; heights are in
\* 1..maxLevel, and level 0 holds every entry of the list.
C12_LevelInvariant ==
    AllIdle =>
        /\ VisitsEntries(Chain(0))
        /\ \A n \in Present : heap[n].levels \in 1..maxLevel
        /\ \A L \in 0..(maxLevel - 1) :
               /\ EndsAtTail(L)
               /\ Increasing(KeysOf(Chain(L)))
               /\ {Chain(L)[i] : i \in DOMAIN Chain(L)} = {n \in Present : heap[n].levels > L}

\* two entries are present, and only one of them is tall enough for level 1
C12_Witness ==
    /\ AllIdle
    /\ maxLevel >= 2
    /\ Len(Chain(0)) = 2
    /\ Len(Chain(1)) = 1

\* the nodes linked into the list: the sentinels and the entries present
Linked == Present \cup {HeadNode, TailNode}

\* C13: between non-overlapping calls, for linked nodes A and B and every
\* level L both have, A's level-L forward pointer is B exactly when B's
\* level-L backward pointer is A.
C13_PointersAreInverses ==
    AllIdle =>
        \A L \in 0..(maxLevel - 1) : \A a \in Linked, b \in Linked :
            (heap[a].levels > L /\ heap[b].levels > L) =>
                ((heap[a].nextNode[L + 1] = b) <=> (heap[b].prevNode[L + 1] = a))

\* two entries are linked at level 0 and at least one of them at level 1
C13_Witness ==
    /\ AllIdle
    /\ Len(Chain(0)) = 2
    /\ Len(heap) = 4
    /\ KeysOf(Chain(0)) = << <<>>, <<1, 2>> >>
    /\ maxLevel >= 2
    /\ Len(Chain(1)) >= 1

\* C14: under any interleaving of calls, in every state where no call holds
\* the lock, Length() is the number of entries reachable from head at level 0
\* and is not negative.
C14_LengthIsLinkedCount ==
    mutex = Nil => (Length = Len(Chain(0)) /\ Length >= 0)

\* ------------------------------------------------------------------ the search

\* what a search for k is to leave, present being the nodes linked at level 0:
\* hist as the per-level predecessors of k, r as the node found (Nil for none)
SearchPost(present, hist, r, k) ==
    /\ \A L \in 0..(maxLevel - 1) :
           LET p  == hist[L + 1]
               nx == heap[p].nextNode[L + 1]
           IN  /\ p = HeadNode \/ (p \in present /\ KeyLess(heap[p].item.key, k))
               /\ heap[p].levels > L
               /\ nx = TailNode \/ (nx \in present /\ ~KeyLess(heap[nx].item.key, k))
    /\ LET nx == heap[hist[1]].nextNode[1]
       IN  /\ (r # Nil) <=> (nx # TailNode /\ heap[nx].item.key = k)
           /\ r # Nil => r = nx

\* C15: on a list between non-overlapping calls, a search for any key k leaves
\* in history[L] head or a node with key below k that has level L and whose
\* level-L successor is tail or has key k or above, and reports a match
\* exactly when the level-0 successor of history[0] is an entry with key k;
\* the buffer a Set or Remove goes on with is as its search left it.
C15_SearchPostcondition ==
    \A present \in {Present} :
        /\ \A k \in Keys : \A f \in {FindInternal(heap, maxLevel, k, history)} :
               SearchPost(present, f.history, f.node, k)
        /\ pc[1] \in {"setValue", "insertNode", "deleteNode"} =>
               SearchPost(present, history, node[1], call[1].key)

\* a Set has searched a list of two levels: an entry precedes its key at
\* level 0 and only head at level 1
C15_Witness ==
    /\ pc[1] = "insertNode"
    /\ maxLevel >= 2
    /\ history[1] \in Present
    /\ history[2] = HeadNode
    /\ heap[HeadNode].nextNode[2] # TailNode

\* ------------------------------------------------------------------ a handle kept by a caller

\* Get(k) finds an entry and the caller keeps the *SkipListItem returned, the
\* address of the node's item, making no call after it
Hold(t, k) ==
    /\ ~Crashed
    /\ pc[t] = "idle"
    /\ mutex = Nil
    /\ \E f \in {FindInternal(heap, maxLevel, k, history)} :
           /\ f.node > Nil
           /\ Leaves(heap, f.history, [node EXCEPT ![t] = f.node])
    /\ pc' = [pc EXCEPT ![t] = "held"]
    /\ UNCHANGED <<maxLevel, length, size, mutex, call, shadow, calls>>

\* one caller makes MaxCalls calls, one after the other; another caller keeps
\* what its one Get returned
HandleNext ==
    \/ Counted(1) /\ \E k \in Keys, v \in Values : Set(1, k, v)
    \/ Counted(1) /\ \E k \in Keys : Get(1, k)
    \/ Counted(1) /\ \E k \in Keys : Remove(1, k)
    \/ SetValue(1) /\ UNCHANGED calls
    \/ InsertNode(1) /\ UNCHANGED calls
    \/ DeleteNode(1) /\ UNCHANGED calls
    \/ \E k \in Keys : Hold(2, k)

HandleSpec == Init /\ [][HandleNext]_vars

\* the item a kept handle points to
Held(h, nd) == h[nd[2]].item

\* C16 as stated: the entry behind a handle returned by Get reports the same
\* key and the same value after any later Set or Remove.
C16_EntryNeverModified ==
    [][(pc[2] = "held" /\ pc'[2] = "held") => Held(heap', node') = Held(heap, node)]_vars

\* C16, amended: the entry behind a handle returned by Get keeps its key; its
\* value changes only when a Set of that key assigns its own value to it, so a
\* Remove and a Set of another key leave key and value as they were.
C16_EntryChangesOnlyBySetOfItsKey ==
    [][(pc[2] = "held" /\ pc'[2] = "held") =>
          /\ Held(heap', node').key = Held(heap, node).key
          /\ Held(heap', node').value # Held(heap, node).value =>
                 /\ pc[1] = "setValue"
                 /\ pc'[1] = "idle"
                 /\ call[1].key = Held(heap, node).key
                 /\ Held(heap', node').value = call[1].value]_vars

\* the entry was removed after the Get: the handle still reports the key and
\* the value the entry held, and no Get finds the key
C16_Witness ==
    /\ pc[2] = "held"
    /\ pc[1] = "idle"
    /\ node[2] \notin Present
    /\ Held(heap, node).key \notin DOMAIN shadow
    /\ Held(heap, node).value \in Values

\* ------------------------------------------------------------------ progress

\* the values the calls of LiveNext set: the length of a value reaches the
\* size counter alone, which no guard of the code reads
LiveValues == {v \in Values : Len(v) = 1}

\* the calls of Next, setting the values of LiveValues
LiveNext ==
    \E t \in Threads :
        \/ Counted(t) /\ \E k \in Keys, v \in LiveValues : Set(t, k, v)
        \/ Counted(t) /\ \E k \in Keys : Get(t, k)
        \/ Counted(t) /\ \E k \in Keys : Remove(t, k)
        \/ SetValue(t) /\ UNCHANGED calls
        \/ InsertNode(t) /\ UNCHANGED calls
        \/ DeleteNode(t) /\ UNCHANGED calls

\* the step a call under way takes next
Continue(t) == (SetValue(t) \/ InsertNode(t) \/ DeleteNode(t)) /\ UNCHANGED calls

\* a goroutine that can run is run in the end, and a goroutine waiting in
\* mutex.Lock() gets the mutex once it is free: sync.Mutex hands it over to a
\* waiter that has waited long (starvation mode)
LiveSpec == Init /\ [][LiveNext]_vars /\ \A t \in Threads : WF_vars(Continue(t))

\* C17: under fair scheduling every call that starts returns: the mutex is
\* free after every locked section, no call panics and no search runs forever
\* (the chains it walks are finite and end at tail), and a call under way is
\* followed by its return.
C17_EveryCallReturns ==
    /\ [](mutex = Nil /\ \A t \in Threads : pc[t] \notin {"panic", "hang"})
    /\ \A t \in Threads : (pc[t] # "idle") ~> (pc[t] = "idle")

\* ------------------------------------------------------------------ the empty key

\* the key "", which is also the key field of the sentinels
EmptyKey == <<>>

\* C18: with non-overlapping calls the empty string is a key like any other:
\* while it is not stored Get("") finds nothing and Remove("") changes
\* nothing; the Set that stores it makes Length one more and its entry the
\* one Front() returns; and while it is stored Get("") returns the entry with
\* the value last set, which is the entry Front() returns.
C18_EmptyKeyIsOrdinary ==
    /\ [](AllIdle =>
            IF EmptyKey \in DOMAIN shadow
            THEN /\ GetResult(EmptyKey) = Front
                 /\ ~heap[Front].isEndNode
                 /\ heap[Front].item = [key |-> EmptyKey, value |-> shadow[EmptyKey]]
            ELSE GetResult(EmptyKey) = Nil)
    /\ [][(AllIdle /\ EmptyKey \notin DOMAIN shadow /\ Remove(1, EmptyKey)) =>
              (pc'[1] = "idle" /\ heap' = heap /\ length' = length /\ size' = size)]_vars
    /\ [][(pc[1] = "insertNode" /\ call[1].key = EmptyKey /\ pc'[1] = "idle") =>
              /\ length' = length + 1
              /\ LET front == heap'[HeadNode].nextNode[1]
                 IN  heap'[front].item = [key |-> EmptyKey, value |-> call[1].value]]_vars

\* the empty key is stored along with two other keys
C18_Witness ==
    /\ AllIdle
    /\ EmptyKey \in DOMAIN shadow
    /\ Len(Chain(0)) = 3
    /\ heap[Front].item.key = EmptyKey

\* ------------------------------------------------------------------ the size counter

\* the uint64 u is n or more, for 0 <= n < LimbBase
U64AtLeast(u, n) == (\E i \in 2..LimbCount : u[i] # 0) \/ u[1] >= n

\* what deleteNode(n) subtracts from list.size
Subtracted(h, n) == Len(h[n].item.key) + Len(h[n].item.value)

\* C19: with non-overlapping Set and Remove calls the size counter never
\* wraps below zero: a Remove about to unlink its node subtracts no more than
\* Size() is, and Size() is 0 whenever the list holds no entry.
C19_SizeNeverWraps ==
    /\ pc[1] = "deleteNode" => U64AtLeast(size, Subtracted(heap, node[1]))
    /\ (AllIdle /\ Chain(0) = <<>>) => Size = U64Zero

\* ------------------------------------------------------------------ next(targetLevel)

\* C20: for a node of height h, next(L) returns the node's level-L successor
\* for 0 <= L < h, and for every L >= h returns no node, without reading
\* outside the node's pointer table.
C20_NextIsBoundsSafe ==
    \A n \in DOMAIN heap : \A L \in 0..(MaxLevel + 1) :
        NodeNext(heap, n, L) = IF L < heap[n].levels THEN heap[n].nextNode[L + 1] ELSE Nil

====
